---- MODULE Spec2Model ----
(***************************************************************************)
(* Model of pytype/pytd/serialize_ast.py: storing a pytd.TypeDeclUnit as a *)
(* SerializableAst (StoreAst), renaming it at load time (EnsureAstName,    *)
(* RenameModuleVisitor) and restoring its ClassType.cls pointers           *)
(* (ProcessAst = _LookupClassReferences ; _FillLocalReferences).           *)
(*                                                                         *)
(* A name is a Python string, modelled as the sequence of its characters;  *)
(* the literal "__init__" is kept as one token.  A node is a record with   *)
(* an id (its object identity); the one mutable attribute, ClassType.cls,  *)
(* lives in the heap function cls: node id -> id of the pointed-to Class.  *)
(***************************************************************************)
EXTENDS Integers, Sequences, FiniteSets, TLC

VARIABLES
  ast,         \* the caller's pytd.TypeDeclUnit, the argument of StoreAst
  cls,         \* heap: ClassType node id -> .cls (None or a Class node id)
  cls0,        \* the heap as it was when StoreAst was called
  gen,         \* number of tree rebuilds so far (source of fresh node ids)
  bundle,      \* the caller's SerializableAst (None before StoreAst)
  module_map,  \* the caller's dict: module name -> loaded TypeDeclUnit
  loaded,      \* how the bundle was loaded: last operation and its inputs,
               \* and the heap as it was after line 141-143 of StoreAst
  mid,         \* ProcessAst's local serializable_ast after line 211-212
  mid_cls,     \* the heap after line 211-212 of the last ProcessAst call
  called,      \* the ProcessAst calls so far, and what the first was given
  renamer,     \* the RenameModuleVisitor the caller constructed itself
  result,      \* outcome of ProcessAst: returned tree or raised exception
  pc           \* the caller's position

vars == <<ast, cls, cls0, gen, bundle, module_map, loaded, mid, mid_cls, called,
          renamer, result, pc>>

None == "None"

-----------------------------------------------------------------------------
(* Bounds of the model.                                                    *)

MaxRefs == 2      \* ClassType nodes in the tree handed to StoreAst

-----------------------------------------------------------------------------
(* Python str operations, on sequences of characters.                      *)

OccursAt(s, sub, i) ==
  /\ i >= 1
  /\ i + Len(sub) - 1 <= Len(s)
  /\ \A k \in 1..Len(sub) : s[i + k - 1] = sub[k]

Occurrences(s, sub) == {i \in 1..(Len(s) + 1) : OccursAt(s, sub, i)}

Least(S) == CHOOSE x \in S : \A y \in S : x <= y
Greatest(S) == CHOOSE x \in S : \A y \in S : x >= y

\* s.partition(sep) -> <<before, match, after>>, split at the first occurrence
Partition(s, sep) ==
  IF Occurrences(s, sep) = {}
  THEN <<s, <<>>, <<>>>>
  ELSE LET i == Least(Occurrences(s, sep))
       IN <<SubSeq(s, 1, i - 1), sep, SubSeq(s, i + Len(sep), Len(s))>>

\* s.rpartition(sep) -> <<before, match, after>>, split at the last occurrence
RPartition(s, sep) ==
  IF Occurrences(s, sep) = {}
  THEN <<<<>>, <<>>, s>>
  ELSE LET i == Greatest(Occurrences(s, sep))
       IN <<SubSeq(s, 1, i - 1), sep, SubSeq(s, i + Len(sep), Len(s))>>

\* s.endswith(suffix)
EndsWith(s, suffix) == OccursAt(s, suffix, Len(s) - Len(suffix) + 1)

\* s.rsplit(sep, 1)[0]
RSplitHead(s, sep) ==
  IF Occurrences(s, sep) = {} THEN s ELSE RPartition(s, sep)[1]

\* ch in s
Contains(s, ch) == \E i \in 1..Len(s) : s[i] = ch

Dot == <<".">>
DotInit == <<".", "__init__">>

\* a + "." + b
Dotted(a, b) == a \o Dot \o b

\* Rank of a character in Python's ordering of str (code point order): "."
\* sorts before the capitals, "_" after them and before the small letters.
CharRank(c) ==
  CASE c = "." -> 0
    [] c = "A" -> 1
    [] c = "B" -> 2
    [] c = "C" -> 3
    [] c = "X" -> 4
    [] c = "Y" -> 5
    [] c = "Z" -> 6
    [] c = "__init__" -> 7
    [] c = "e" -> 8
    [] c = "m" -> 9
    [] c = "n" -> 10
    [] c = "p" -> 11
    [] c = "r" -> 12

\* a < b for Python strings
RECURSIVE StrLess(_, _)
StrLess(a, b) ==
  IF b = <<>> THEN FALSE
  ELSE IF a = <<>> THEN TRUE
  ELSE IF Head(a) # Head(b) THEN CharRank(Head(a)) < CharRank(Head(b))
  ELSE StrLess(Tail(a), Tail(b))

\* sorted(nodes): nodes compare by their name field; insertion sort, stable
\* as Python's sort is
RECURSIVE InsertByName(_, _)
InsertByName(x, xs) ==
  IF xs = <<>> THEN <<x>>
  ELSE IF StrLess(x.name, Head(xs).name) THEN <<x>> \o xs
  ELSE <<Head(xs)>> \o InsertByName(x, Tail(xs))

RECURSIVE SortedByName(_)
SortedByName(xs) ==
  IF xs = <<>> THEN <<>>
  ELSE LET n == Len(xs)
       IN InsertByName(xs[n], SortedByName(SubSeq(xs, 1, n - 1)))

\* list(sorted(a_set)) for a set of strings
RECURSIVE SortedSet(_)
SortedSet(S) ==
  IF S = {} THEN <<>>
  ELSE LET lo == CHOOSE x \in S : \A y \in S : ~StrLess(y, x)
       IN <<lo>> \o SortedSet(S \ {lo})

Range(f) == {f[i] : i \in DOMAIN f}

RECURSIVE Flatten(_)
Flatten(ss) == IF ss = <<>> THEN <<>> ELSE Head(ss) \o Flatten(Tail(ss))

-----------------------------------------------------------------------------
(* pytd nodes.  TypeDeclUnit: [id, name, classes, aliases]; Class: [id,     *)
(* name, parents]; Alias: [id, name, type]; a type is [kind, id, name] with *)
(* kind "ClassType" (the node that carries .cls) or "NamedType".            *)

ClassType(id, name) == [kind |-> "ClassType", id |-> id, name |-> name]

IsClassType(t) == t.kind = "ClassType"

\* The type nodes of a tree in the order a Visitor enters them.
TypesOf(unit) ==
  Flatten([i \in 1..Len(unit.classes) |-> unit.classes[i].parents])
    \o [i \in 1..Len(unit.aliases) |-> unit.aliases[i].type]

\* FindClassTypesVisitor: EnterClassType appends every ClassType node met.
FindClassTypesVisitor(unit) == SelectSeq(TypesOf(unit), IsClassType)

ClassTypeIds(unit) == {t.id : t \in Range(FindClassTypesVisitor(unit))}

ClassIds(unit) == {c.id : c \in Range(unit.classes)}

\* TypeDeclUnit.Lookup(name): the declaration of that name, None if there is
\* none (the KeyError of the original).
Lookup(unit, name) ==
  IF \E c \in Range(unit.classes) : c.name = name
  THEN LET i == Least({k \in 1..Len(unit.classes) : unit.classes[k].name = name})
       IN [kind |-> "Class", node |-> unit.classes[i]]
  ELSE IF \E a \in Range(unit.aliases) : a.name = name
  THEN LET i == Least({k \in 1..Len(unit.aliases) : unit.aliases[k].name = name})
       IN [kind |-> "Alias", node |-> unit.aliases[i]]
  ELSE [kind |-> None]

\* A node built while the tree is rebuilt for the g-th time is a new object.
FreshId(id, g) == (100 * g) + (id % 100)

-----------------------------------------------------------------------------
(* RenameModuleVisitor.                                                    *)

RenameModuleVisitorNeverRaises(old_module_name, new_module_name) == None

\* __init__: the exception the constructor raises, or None
RenameModuleVisitorRaises(old_module_name, new_module_name) ==
  IF old_module_name = <<>> THEN "ValueError"
  ELSE IF EndsWith(old_module_name, Dot) \/ EndsWith(new_module_name, Dot)
  THEN "AssertionError"
  ELSE None

\* __init__: the visitor's fields
RenameModuleVisitor(old_module_name, new_module_name) ==
  [_module_name |-> new_module_name,
   _old |-> IF old_module_name # <<>> THEN old_module_name \o Dot ELSE <<>>,
   _new |-> IF new_module_name # <<>> THEN new_module_name \o Dot ELSE <<>>]

MaybeNewNameAnySuffix(v, name) ==
  IF name = <<>> THEN name
  ELSE LET p == Partition(name, v._old)
       IN IF p[2] # <<>> /\ p[1] = <<>> THEN v._new \o p[3] ELSE name

_MaybeNewName(v, name) ==
  IF name = <<>> THEN name
  ELSE LET p == Partition(name, v._old)
           before == p[1]
           match == p[2]
           after == p[3]
       IN IF match # <<>> /\ before = <<>> /\ ~Contains(after, ".")
          THEN v._new \o after
          ELSE name

\* VisitClassType, and _ReplaceModuleName for the other types: a node of the
\* new name if the name changes, the node itself otherwise.
RenameType(v, t, g) ==
  LET new_name == _MaybeNewName(v, t.name)
  IN IF new_name # t.name
     THEN [kind |-> t.kind, id |-> FreshId(t.id, g), name |-> new_name]
     ELSE t

\* VisitClass = _ReplaceModuleName, after the Visitor has rebuilt the class
\* around any parent that was replaced.
RenameClass(v, c, g) ==
  LET parents == [i \in 1..Len(c.parents) |-> RenameType(v, c.parents[i], g)]
      new_name == _MaybeNewName(v, c.name)
  IN IF new_name # c.name \/ parents # c.parents
     THEN [id |-> FreshId(c.id, g), name |-> new_name, parents |-> parents]
     ELSE c

\* VisitAlias = _ReplaceModuleName
RenameAlias(v, a, g) ==
  LET type == RenameType(v, a.type, g)
      new_name == _MaybeNewName(v, a.name)
  IN IF new_name # a.name \/ type # a.type
     THEN [id |-> FreshId(a.id, g), name |-> new_name, type |-> type]
     ELSE a

\* ast.Visit(RenameModuleVisitor(...)): VisitTypeDeclUnit always replaces
\* the root.
RenameUnit(v, unit, g) ==
  [id |-> FreshId(unit.id, g),
   name |-> v._module_name,
   classes |-> [i \in 1..Len(unit.classes) |-> RenameClass(v, unit.classes[i], g)],
   aliases |-> [i \in 1..Len(unit.aliases) |-> RenameAlias(v, unit.aliases[i], g)]]

RenamedHeapDropsCls(v, unit, g, heap) ==
  LET renamed == {t \in Range(FindClassTypesVisitor(unit)) :
                    _MaybeNewName(v, t.name) # t.name}
      new_ids == {FreshId(t.id, g) : t \in renamed}
  IN [i \in DOMAIN heap \cup new_ids |-> IF i \in new_ids THEN 0 ELSE heap[i]]

\* VisitClassType builds pytd.ClassType(new_name, node.cls): the new node
\* starts with the pointer of the node it replaces.
RenamedHeap(v, unit, g, heap) ==
  LET renamed == {t \in Range(FindClassTypesVisitor(unit)) :
                    _MaybeNewName(v, t.name) # t.name}
      new_ids == {FreshId(t.id, g) : t \in renamed}
      OldOf(i) == CHOOSE t \in renamed : FreshId(t.id, g) = i
  IN [i \in DOMAIN heap \cup new_ids |->
        IF i \in new_ids THEN heap[OldOf(i).id] ELSE heap[i]]

-----------------------------------------------------------------------------
(* The visitors of pytype.pytd.parse.visitors that serialize_ast.py runs.  *)

\* ClassType.cls of a node that points nowhere (Python's None)
NoCls == 0

\* CollectDependencies: the module part of every dotted type name.
CollectDependencies(unit) ==
  {RPartition(t.name, Dot)[1] : t \in {u \in Range(TypesOf(unit)) : Contains(u.name, ".")}}

\* ClearClassPointers: EnterClassType sets node.cls = None.
ClearClassPointers(unit, heap) ==
  [i \in DOMAIN heap |-> IF i \in ClassTypeIds(unit) THEN NoCls ELSE heap[i]]

\* LookupExternalTypes(module_map, full_names=True, self_name)
LookupExternalTypes(mm, self_name) == [module_map |-> mm, self_name |-> self_name]

\* LookupExternalTypes.VisitClassType(t): a reference into the module
\* self_name is returned as it is; another one is looked up by its full name,
\* which raises KeyError if the module or the name is missing; a class found
\* is stored into t.cls and t returned; anything else found replaces t.
LookupVisitClassType(lk, t, heap) ==
  LET rp == RPartition(t.name, Dot)
      module_name == rp[1]
      same == [raised |-> FALSE, node |-> t, heap |-> heap]
      keyError == [raised |-> TRUE, key |-> t.name, node |-> t, heap |-> heap]
  IN IF rp[2] = <<>> \/ module_name = lk.self_name THEN same
     ELSE IF module_name \notin DOMAIN lk.module_map THEN keyError
     ELSE LET item == Lookup(lk.module_map[module_name], t.name)
          IN IF item.kind = "Class"
             THEN [raised |-> FALSE, node |-> t,
                   heap |-> [heap EXCEPT ![t.id] = item.node.id]]
             ELSE IF item.kind = "Alias"
             THEN [raised |-> FALSE, node |-> item.node.type, heap |-> heap]
             ELSE keyError

\* ast.Visit(LookupExternalTypes): the heap after the ClassType nodes were
\* visited in order, up to the first KeyError.
RECURSIVE LookupVisitAll(_, _, _)
LookupVisitAll(lk, nodes, heap) ==
  IF nodes = <<>> THEN [raised |-> FALSE, heap |-> heap]
  ELSE LET r == LookupVisitClassType(lk, Head(nodes), heap)
       IN IF r.raised THEN [raised |-> TRUE, key |-> r.key, heap |-> r.heap]
          ELSE LookupVisitAll(lk, Tail(nodes), r.heap)

\* ast.Visit(LookupExternalTypes): the tree, rebuilt around every node that
\* VisitClassType replaced; a node without replaced descendants is kept.
LookupVisitType(lk, t, heap) ==
  IF IsClassType(t) THEN LookupVisitClassType(lk, t, heap).node ELSE t

LookupVisitUnit(lk, unit, heap, g) ==
  LET NewParents(c) == [i \in 1..Len(c.parents) |-> LookupVisitType(lk, c.parents[i], heap)]
      NewClass(c) == IF NewParents(c) # c.parents
                     THEN [id |-> FreshId(c.id, g), name |-> c.name,
                           parents |-> NewParents(c)]
                     ELSE c
      NewAlias(a) == IF LookupVisitType(lk, a.type, heap) # a.type
                     THEN [id |-> FreshId(a.id, g), name |-> a.name,
                           type |-> LookupVisitType(lk, a.type, heap)]
                     ELSE a
      classes == [i \in 1..Len(unit.classes) |-> NewClass(unit.classes[i])]
      aliases == [i \in 1..Len(unit.aliases) |-> NewAlias(unit.aliases[i])]
  IN IF classes # unit.classes \/ aliases # unit.aliases
     THEN [id |-> FreshId(unit.id, g), name |-> unit.name,
           classes |-> classes, aliases |-> aliases]
     ELSE unit

\* FillInLocalPointers(lookup_map).EnterClassType(node): a node whose cls is
\* None gets the class its name denotes in the module of lookup_map that the
\* name is in; without such a class it stays None.
FillEnterClassType(lookup_map, t, heap) ==
  LET module_name == RPartition(t.name, Dot)[1]
  IN IF heap[t.id] # NoCls \/ module_name \notin DOMAIN lookup_map THEN heap
     ELSE LET item == Lookup(lookup_map[module_name], t.name)
          IN IF item.kind = "Class"
             THEN [heap EXCEPT ![t.id] = item.node.id]
             ELSE heap

\* ast.Visit(FillInLocalPointers(lookup_map))
RECURSIVE FillVisitAll(_, _, _)
FillVisitAll(lookup_map, nodes, heap) ==
  IF nodes = <<>> THEN heap
  ELSE FillVisitAll(lookup_map, Tail(nodes),
                    FillEnterClassType(lookup_map, Head(nodes), heap))

-----------------------------------------------------------------------------
(* SerializableAst(ast, dependencies, class_type_nodes).  class_type_nodes *)
(* is a list of nodes or None: [present, nodes].                           *)

IndexNone == [present |-> FALSE, nodes |-> <<>>]
IndexOf(nodes) == [present |-> TRUE, nodes |-> nodes]

\* Python's truth value of class_type_nodes: neither None nor empty
Truthy(index) == index.present /\ index.nodes # <<>>

SerializableAst(a, dependencies, class_type_nodes) ==
  [ast |-> a, dependencies |-> dependencies, class_type_nodes |-> class_type_nodes]

-----------------------------------------------------------------------------
(* StoreAst                                                                *)

StoreRenameKeepsInit(a) == FALSE

\* line 141
StoreRenames(a) == EndsWith(a.name, DotInit)

\* line 142-143
StoreVisitor(a) == RenameModuleVisitor(a.name, RSplitHead(a.name, DotInit))

\* line 145-147 and 154
StoreDependencies(a) == SortedSet(CollectDependencies(a))

StoreKeepsPointers(a, heap) == heap

StoreCleansNewNodes(a, heap) ==
  [i \in DOMAIN heap |-> IF i \in ClassTypeIds(a) /\ i >= 100 THEN 0 ELSE heap[i]]

\* line 150
StoreCleanHeap(a, heap) == ClearClassPointers(a, heap)

\* line 151-152 and 155
StoreIndex(a) == IndexOf(SortedByName(FindClassTypesVisitor(a)))

\* The SerializableAst handed to SavePickle, the heap and the rebuild count
\* that StoreAst leaves, and the heap as it was after line 141-143.
StoreAst(a, heap, g) ==
  LET renames == StoreRenames(a)
      a1 == IF renames THEN RenameUnit(StoreVisitor(a), a, g + 1) ELSE a
      h1 == IF renames THEN RenamedHeap(StoreVisitor(a), a, g + 1, heap) ELSE heap
  IN [sa |-> SerializableAst(a1, StoreDependencies(a1), StoreIndex(a1)),
      renamed_heap |-> h1,
      heap |-> StoreCleanHeap(a1, h1),
      gen |-> IF renames THEN g + 1 ELSE g]

-----------------------------------------------------------------------------
(* EnsureAstName                                                           *)

EnsureAstNameKeepsIndex(sa, module_name, heap, g) ==
  LET raw_ast == sa.ast
      v == RenameModuleVisitor(raw_ast.name, module_name)
  IN IF module_name # raw_ast.name
     THEN [raised |-> RenameModuleVisitorRaises(raw_ast.name, module_name),
           sa |-> [sa EXCEPT !.ast = RenameUnit(v, raw_ast, g + 1)],
           heap |-> RenamedHeap(v, raw_ast, g + 1, heap),
           gen |-> g + 1]
     ELSE [raised |-> None, sa |-> sa, heap |-> heap, gen |-> g]

EnsureAstName(sa, module_name, heap, g) ==
  LET raw_ast == sa.ast
      v == RenameModuleVisitor(raw_ast.name, module_name)
  IN IF module_name # raw_ast.name
     THEN [raised |-> RenameModuleVisitorRaises(raw_ast.name, module_name),
           sa |-> [sa EXCEPT !.class_type_nodes = IndexNone,
                             !.ast = RenameUnit(v, raw_ast, g + 1)],
           heap |-> RenamedHeap(v, raw_ast, g + 1, heap),
           gen |-> g + 1]
     ELSE [raised |-> None, sa |-> sa, heap |-> heap, gen |-> g]

-----------------------------------------------------------------------------
(* _LookupClassReferences                                                  *)

RECURSIVE LookupIndexedSkipsMissing(_, _, _)
LookupIndexedSkipsMissing(lk, nodes, heap) ==
  IF nodes = <<>> THEN [raised |-> FALSE, broke |-> FALSE, heap |-> heap]
  ELSE LET r == LookupVisitClassType(lk, Head(nodes), heap)
       IN IF r.raised
          THEN LookupIndexedSkipsMissing(lk, Tail(nodes), r.heap)
          ELSE IF r.node.id # Head(nodes).id
          THEN [raised |-> FALSE, broke |-> TRUE, heap |-> r.heap]
          ELSE LookupIndexedSkipsMissing(lk, Tail(nodes), r.heap)

RECURSIVE LookupIndexedNeverBreaks(_, _, _)
LookupIndexedNeverBreaks(lk, nodes, heap) ==
  IF nodes = <<>> THEN [raised |-> FALSE, broke |-> FALSE, heap |-> heap]
  ELSE LET r == LookupVisitClassType(lk, Head(nodes), heap)
       IN IF r.raised
          THEN [raised |-> TRUE, key |-> r.key, broke |-> FALSE, heap |-> r.heap]
          ELSE LookupIndexedNeverBreaks(lk, Tail(nodes), r.heap)

RECURSIVE LookupIndexedLeavesStale(_, _, _)
LookupIndexedLeavesStale(lk, nodes, heap) ==
  IF nodes = <<>> THEN [raised |-> FALSE, broke |-> FALSE, heap |-> heap]
  ELSE LET r == LookupVisitClassType(lk, Head(nodes), heap)
       IN IF r.raised
          THEN [raised |-> TRUE, key |-> r.key, broke |-> FALSE,
                heap |-> [i \in DOMAIN heap |->
                            IF \E n \in Range(nodes) : n.id = i THEN 90 ELSE heap[i]]]
          ELSE IF r.node.id # Head(nodes).id
          THEN [raised |-> FALSE, broke |-> TRUE, heap |-> r.heap]
          ELSE LookupIndexedLeavesStale(lk, Tail(nodes), r.heap)

\* line 242-248: the loop over class_type_nodes; it ends at the first node
\* that VisitClassType replaces (broke) or cannot find (raised).
RECURSIVE LookupIndexed(_, _, _)
LookupIndexed(lk, nodes, heap) ==
  IF nodes = <<>> THEN [raised |-> FALSE, broke |-> FALSE, heap |-> heap]
  ELSE LET r == LookupVisitClassType(lk, Head(nodes), heap)
       IN IF r.raised
          THEN [raised |-> TRUE, key |-> r.key, broke |-> FALSE, heap |-> r.heap]
          ELSE IF r.node.id # Head(nodes).id
          THEN [raised |-> FALSE, broke |-> TRUE, heap |-> r.heap]
          ELSE LookupIndexed(lk, Tail(nodes), r.heap)

LookupKeepsIndex(sa, mm, self_name, heap, g) ==
  LET class_lookup == LookupExternalTypes(mm, self_name)
      raw_ast == sa.ast
      fast == IF Truthy(sa.class_type_nodes)
              THEN LookupIndexed(class_lookup, sa.class_type_nodes.nodes, heap)
              ELSE [raised |-> FALSE, broke |-> FALSE, heap |-> heap]
      slow == LookupVisitAll(class_lookup, FindClassTypesVisitor(raw_ast), fast.heap)
      visited == LookupVisitUnit(class_lookup, raw_ast, fast.heap, g + 1)
  IN IF fast.raised
     THEN [raised |-> TRUE, key |-> fast.key, sa |-> sa, heap |-> fast.heap, gen |-> g]
     ELSE IF fast.broke \/ ~sa.class_type_nodes.present
     THEN IF slow.raised
          THEN [raised |-> TRUE, key |-> slow.key, sa |-> sa, heap |-> slow.heap,
                gen |-> g]
          ELSE [raised |-> FALSE, sa |-> [sa EXCEPT !.ast = visited],
                heap |-> slow.heap,
                gen |-> IF visited # raw_ast THEN g + 1 ELSE g]
     ELSE [raised |-> FALSE, sa |-> sa, heap |-> fast.heap, gen |-> g]

_LookupClassReferences(sa, mm, self_name, heap, g) ==
  LET class_lookup == LookupExternalTypes(mm, self_name)
      raw_ast == sa.ast
      fast == IF Truthy(sa.class_type_nodes)
              THEN LookupIndexed(class_lookup, sa.class_type_nodes.nodes, heap)
              ELSE [raised |-> FALSE, broke |-> FALSE, heap |-> heap]
      sa1 == IF fast.broke THEN [sa EXCEPT !.class_type_nodes = IndexNone] ELSE sa
      slow == LookupVisitAll(class_lookup, FindClassTypesVisitor(raw_ast), fast.heap)
      visited == LookupVisitUnit(class_lookup, raw_ast, fast.heap, g + 1)
  IN IF fast.raised
     THEN [raised |-> TRUE, key |-> fast.key, sa |-> sa, heap |-> fast.heap, gen |-> g]
     ELSE IF ~sa1.class_type_nodes.present
     THEN IF slow.raised
          THEN [raised |-> TRUE, key |-> slow.key, sa |-> sa1, heap |-> slow.heap,
                gen |-> g]
          ELSE [raised |-> FALSE, sa |-> [sa1 EXCEPT !.ast = visited],
                heap |-> slow.heap,
                gen |-> IF visited # raw_ast THEN g + 1 ELSE g]
     ELSE [raised |-> FALSE, sa |-> sa1, heap |-> fast.heap, gen |-> g]

-----------------------------------------------------------------------------
(* _FillLocalReferences                                                    *)

\* line 261-264: the loop over class_type_nodes; it raises AssertionError at
\* the first node whose cls is still None.
RECURSIVE FillIndexed(_, _, _)
FillIndexed(lookup_map, nodes, heap) ==
  IF nodes = <<>> THEN [raised |-> FALSE, heap |-> heap]
  ELSE LET h == FillEnterClassType(lookup_map, Head(nodes), heap)
       IN IF h[Head(nodes).id] = NoCls
          THEN [raised |-> TRUE, node |-> Head(nodes), heap |-> h]
          ELSE FillIndexed(lookup_map, Tail(nodes), h)

FillLocalOverwrites(sa, lookup_map, heap) ==
  [raised |-> FALSE,
   heap |-> FillVisitAll(lookup_map, FindClassTypesVisitor(sa.ast),
                         ClearClassPointers(sa.ast, heap))]

_FillLocalReferences(sa, lookup_map, heap) ==
  IF Truthy(sa.class_type_nodes)
  THEN FillIndexed(lookup_map, sa.class_type_nodes.nodes, heap)
  ELSE [raised |-> FALSE,
        heap |-> FillVisitAll(lookup_map, FindClassTypesVisitor(sa.ast), heap)]

-----------------------------------------------------------------------------
(* ProcessAst                                                              *)

\* line 213-215: {"": ast, ast.name: ast}
LocalMap(a) == (<<>> :> a) @@ (a.name :> a)

\* line 216, or the AssertionError of line 264
ProcessAstFilled(looked, filled) ==
  IF filled.raised
  THEN [kind |-> "AssertionError", node |-> filled.node, mid |-> looked.sa,
        mid_heap |-> looked.heap, heap |-> filled.heap, gen |-> looked.gen]
  ELSE [kind |-> "returned", tree |-> looked.sa.ast, mid |-> looked.sa,
        mid_heap |-> looked.heap, heap |-> filled.heap, gen |-> looked.gen]

\* line 213-215, or the UnrestorableDependencyError of line 248 and 253
ProcessAstLooked(looked) ==
  IF looked.raised
  THEN [kind |-> "UnrestorableDependencyError", key |-> looked.key,
        mid |-> looked.sa, mid_heap |-> looked.heap, heap |-> looked.heap,
        gen |-> looked.gen]
  ELSE ProcessAstFilled(
         looked,
         _FillLocalReferences(looked.sa, LocalMap(looked.sa.ast), looked.heap))

LocalFirstLooked(filled, looked) ==
  IF looked.raised
  THEN [kind |-> "UnrestorableDependencyError", key |-> looked.key,
        mid |-> looked.sa, mid_heap |-> looked.heap, heap |-> looked.heap,
        gen |-> looked.gen]
  ELSE [kind |-> "returned", tree |-> looked.sa.ast, mid |-> looked.sa,
        mid_heap |-> looked.heap, heap |-> looked.heap, gen |-> looked.gen]

LocalFirstFilled(sa, mm, g, filled) ==
  IF filled.raised
  THEN [kind |-> "AssertionError", node |-> filled.node, mid |-> sa,
        mid_heap |-> filled.heap, heap |-> filled.heap, gen |-> g]
  ELSE LocalFirstLooked(
         filled, _LookupClassReferences(sa, mm, sa.ast.name, filled.heap, g))

ProcessAstLocalFirst(sa, mm, heap, g) ==
  LocalFirstFilled(sa, mm, g, _FillLocalReferences(sa, LocalMap(sa.ast), heap))

\* What ProcessAst does: the exception raised or the tree returned, the
\* value of its local serializable_ast (mid) and the heap (mid_heap) after
\* line 211-212, and the heap and the rebuild count it leaves.
ProcessAst(sa, mm, heap, g) ==
  ProcessAstLooked(_LookupClassReferences(sa, mm, sa.ast.name, heap, g))

-----------------------------------------------------------------------------
(* The caller: the trees it stores, the modules it has loaded, the names   *)
(* it loads a bundle under.                                                *)

NameM == <<"m">>
NameN == <<"n">>
NameE == <<"e">>
NamePInit == <<"p", ".", "__init__">>

\* names of the trees handed to StoreAst
TreeNames == {NameM, NamePInit}

\* names a bundle is loaded under
LoadNames == {NameM, NameN}

\* last characters of the names of the classes a tree may declare, in the
\* order the tree declares them
ClassChars == <<"A", "B">>

\* names a ClassType of a tree called tn with n classes may carry: the
\* tree's classes, a class the tree lacks, a name nested below a class, a
\* name that holds the tree's name further in, a class of module e, an
\* alias of module e and a class of module m
RefNames(tn, n) ==
  {Dotted(tn, <<ClassChars[i]>>) : i \in 1..n}
    \cup {Dotted(tn, <<"Z">>), Dotted(tn, <<"A", ".", "r">>),
          Dotted(NameE, Dotted(tn, <<"A">>)),
          Dotted(NameE, <<"X">>), Dotted(NameE, <<"Y">>),
          Dotted(NameM, <<"A">>)}

SeqsUpTo(S, n) == UNION {[1..k -> S] : k \in 0..n}

\* The ways to hand the parents named names[1], names[2], ... to n classes
\* in order: own[k] is the class that gets names[k].
Owners(names, n) ==
  {own \in [1..Len(names) -> 1..n] :
     \A k \in 1..(Len(names) - 1) : own[k] <= own[k + 1]}

\* The parents of each of n classes.
Parents(names, own, n) ==
  [i \in 1..n |-> SelectSeq([k \in 1..Len(names) |-> <<own[k], names[k]>>],
                            LAMBDA x : x[1] = i)]

\* The tree called tn whose i-th class has parents named par[i].
MakeUnit(tn, par) ==
  [id |-> 1,
   name |-> tn,
   classes |-> [i \in 1..Len(par) |->
                  [id |-> 10 + i,
                   name |-> Dotted(tn, <<ClassChars[i]>>),
                   parents |-> [j \in 1..Len(par[i]) |->
                                  ClassType(10 + (10 * i) + j, par[i][j][2])]]],
   aliases |-> <<>>]

\* The modules the caller may have loaded: e declares class e.X and alias
\* e.Y; m is an earlier load of a module called m, declaring class m.A.
Loadable ==
  (NameE :> [id |-> 50, name |-> NameE,
             classes |-> <<[id |-> 51, name |-> Dotted(NameE, <<"X">>),
                            parents |-> <<>>]>>,
             aliases |-> <<[id |-> 52, name |-> Dotted(NameE, <<"Y">>),
                            type |-> [kind |-> "NamedType", id |-> 53,
                                      name |-> <<"r">>]]>>])
  @@
  (NameM :> [id |-> 60, name |-> NameM,
             classes |-> <<[id |-> 61, name |-> Dotted(NameM, <<"A">>),
                            parents |-> <<>>]>>,
             aliases |-> <<>>])

\* The pointer a ClassType of an already resolved tree carries: the class of
\* that name in the tree or in a loadable module, else a class of an earlier
\* version of some module (node 90).
ResolvedCls(unit, t) ==
  LET here == Lookup(unit, t.name)
      module_name == RPartition(t.name, Dot)[1]
      there == IF module_name \in DOMAIN Loadable
               THEN Lookup(Loadable[module_name], t.name)
               ELSE [kind |-> None]
  IN IF here.kind = "Class" THEN here.node.id
     ELSE IF there.kind = "Class" THEN there.node.id
     ELSE 90

NoBundle == [stored |-> FALSE]
NoResult == [kind |-> "none"]
NotLoaded == [ensured |-> FALSE]
NotCalled == [attempts |-> 0]
NoRenamer == [constructed |-> FALSE]

\* The heap of a tree handed to StoreAst: every pointer None, or every
\* pointer set.
InitialHeap(unit, resolved) ==
  [i \in ClassTypeIds(unit) |->
     IF resolved
     THEN ResolvedCls(unit, CHOOSE t \in Range(TypesOf(unit)) : t.id = i)
     ELSE NoCls]

InitWith(unit, resolved, mods) ==
  /\ ast = unit
  /\ cls = InitialHeap(unit, resolved)
  /\ cls0 = InitialHeap(unit, resolved)
  /\ gen = 0
  /\ bundle = NoBundle
  /\ module_map = [k \in mods |-> Loadable[k]]
  /\ loaded = NotLoaded
  /\ mid = NoBundle
  /\ mid_cls = InitialHeap(unit, resolved)
  /\ called = NotCalled
  /\ renamer = NoRenamer
  /\ result = NoResult
  /\ pc = "start"

Init ==
  \E tn \in TreeNames, n \in 0..Len(ClassChars), resolved \in BOOLEAN,
     mods \in SUBSET (DOMAIN Loadable) :
    \E names \in SeqsUpTo(RefNames(tn, n), IF n = 0 THEN 0 ELSE MaxRefs) :
      \E own \in Owners(names, n) :
        InitWith(MakeUnit(tn, Parents(names, own, n)), resolved, mods)

\* The caller stores its tree.
Stored(r) ==
  /\ bundle' = r.sa
  /\ cls' = r.heap
  /\ gen' = r.gen
  /\ loaded' = [ensured |-> FALSE, stored |-> r.sa, renamed_heap |-> r.renamed_heap]

CallStoreAst ==
  /\ pc = "start"
  /\ Stored(StoreAst(ast, cls, gen))
  /\ pc' = "stored"
  /\ UNCHANGED <<ast, cls0, module_map, mid, mid_cls, called, renamer, result>>

\* The caller loads the bundle under module_name.
Ensured(module_name, r) ==
  IF r.raised # None
  THEN /\ result' = [kind |-> r.raised]
       /\ pc' = "raised"
       /\ UNCHANGED <<bundle, cls, gen, loaded>>
  ELSE /\ bundle' = r.sa
       /\ cls' = r.heap
       /\ gen' = r.gen
       /\ loaded' = [ensured |-> TRUE, stored |-> loaded.stored,
                     renamed_heap |-> loaded.renamed_heap,
                     module_name |-> module_name, heap |-> cls]
       /\ pc' = "ensured"
       /\ UNCHANGED result

CallEnsureAstName ==
  /\ pc = "stored"
  /\ \E module_name \in LoadNames :
       Ensured(module_name, EnsureAstName(bundle, module_name, cls, gen))
  /\ UNCHANGED <<ast, cls0, module_map, mid, mid_cls, called, renamer>>

ProcessedAddsModule(r) ==
  /\ cls' = r.heap
  /\ gen' = r.gen
  /\ mid' = r.mid
  /\ mid_cls' = r.mid_heap
  /\ result' = [k \in DOMAIN r \ {"mid", "mid_heap", "heap", "gen"} |-> r[k]]
  /\ pc' = IF r.kind = "returned" THEN "returned" ELSE "raised"
  /\ module_map' = IF r.kind = "returned"
                    THEN (r.tree.name :> r.tree) @@ module_map
                    ELSE module_map

\* What a ProcessAst call leaves to the caller.  module_map is only read:
\* it is handed to LookupExternalTypes (line 237), and the dict of line
\* 213-215 is another one.
Processed(r) ==
  /\ cls' = r.heap
  /\ gen' = r.gen
  /\ mid' = r.mid
  /\ mid_cls' = r.mid_heap
  /\ result' = [k \in DOMAIN r \ {"mid", "mid_heap", "heap", "gen"} |-> r[k]]
  /\ pc' = IF r.kind = "returned" THEN "returned" ELSE "raised"
  /\ module_map' = module_map

\* The caller resolves the bundle against its module map.
CallProcessAst ==
  /\ pc \in {"stored", "ensured"}
  /\ Processed(ProcessAst(bundle, module_map, cls, gen))
  /\ called' = [attempts |-> 1, heap |-> cls, gen |-> gen, module_map |-> module_map]
  /\ UNCHANGED <<ast, cls0, bundle, loaded, renamer>>

\* After an UnrestorableDependencyError the caller loads more modules.
AugmentModuleMap ==
  /\ pc = "raised"
  /\ result.kind = "UnrestorableDependencyError"
  /\ called.attempts = 1
  /\ \E mods \in SUBSET (DOMAIN Loadable \ DOMAIN module_map) :
       /\ mods # {}
       /\ module_map' = module_map @@ [k \in mods |-> Loadable[k]]
  /\ pc' = "augmented"
  /\ UNCHANGED <<ast, cls, cls0, gen, bundle, loaded, mid, mid_cls, called, renamer,
                 result>>

\* ... and calls ProcessAst on the same bundle again.
RetryProcessAst ==
  /\ pc = "augmented"
  /\ Processed(ProcessAst(bundle, module_map, cls, gen))
  /\ called' = [called EXCEPT !.attempts = 2]
  /\ UNCHANGED <<ast, cls0, bundle, loaded, renamer>>

Next ==
  \/ CallStoreAst
  \/ CallEnsureAstName
  \/ CallProcessAst
  \/ AugmentModuleMap
  \/ RetryProcessAst

Spec == Init /\ [][Next]_vars

-----------------------------------------------------------------------------
(* A caller that renames a tree itself: it constructs a RenameModuleVisitor *)
(* and has the tree visited by it.                                         *)

\* old names a caller may give: none, the names of the trees, a name that
\* ends in "."
OldNames == {<<>>, NameM, NamePInit, <<"m", ".">>}

\* new names a caller may give
NewNames == {<<>>, NameN, NameM, <<"n", ".">>}

\* RenameModuleVisitor(old_module_name, new_module_name) raises or leaves a
\* visitor.
Constructed(old_module_name, new_module_name, raises) ==
  IF raises # None
  THEN /\ result' = [kind |-> raises, old_module_name |-> old_module_name,
                     new_module_name |-> new_module_name]
       /\ pc' = "raised"
       /\ UNCHANGED renamer
  ELSE /\ renamer' = RenameModuleVisitor(old_module_name, new_module_name)
       /\ pc' = "constructed"
       /\ UNCHANGED result

ConstructRenamer ==
  /\ pc = "start"
  /\ \E old_module_name \in OldNames, new_module_name \in NewNames :
       Constructed(old_module_name, new_module_name,
                   RenameModuleVisitorRaises(old_module_name, new_module_name))
  /\ UNCHANGED <<ast, cls, cls0, gen, bundle, module_map, loaded, mid, mid_cls, called>>

\* ast = ast.Visit(renamer)
VisitRenamer ==
  /\ pc = "constructed"
  /\ ast' = RenameUnit(renamer, ast, gen + 1)
  /\ cls' = RenamedHeap(renamer, ast, gen + 1, cls)
  /\ gen' = gen + 1
  /\ pc' = "renamed"
  /\ UNCHANGED <<cls0, bundle, module_map, loaded, mid, mid_cls, called, renamer,
                 result>>

NextRenamer == ConstructRenamer \/ VisitRenamer

SpecRenamer == Init /\ [][NextRenamer]_vars

-----------------------------------------------------------------------------
(* Vocabulary of the properties.                                           *)

\* ProcessAst has ended, by return or by exception.
ProcessAstEnded == pc \in {"returned", "raised"} /\ result.kind \in
                {"returned", "UnrestorableDependencyError", "AssertionError"}

\* StoreAst then ProcessAst, with no EnsureAstName between them.
RoundTrip == ProcessAstEnded /\ ~loaded.ensured

\* A tree without node identities: names and kinds only.
Shape(unit) ==
  [name |-> unit.name,
   classes |-> [i \in 1..Len(unit.classes) |->
                  [name |-> unit.classes[i].name,
                   parents |-> [j \in 1..Len(unit.classes[i].parents) |->
                                  [kind |-> unit.classes[i].parents[j].kind,
                                   name |-> unit.classes[i].parents[j].name]]]],
   aliases |-> [i \in 1..Len(unit.aliases) |->
                  [name |-> unit.aliases[i].name,
                   type |-> [kind |-> unit.aliases[i].type.kind,
                             name |-> unit.aliases[i].type.name]]]]

\* name is old + "." + X with no "." in X
IsDirectMember(old, name) ==
  /\ Len(name) >= Len(old) + 1
  /\ SubSeq(name, 1, Len(old)) = old
  /\ name[Len(old) + 1] = "."
  /\ \A i \in (Len(old) + 2)..Len(name) : name[i] # "."

\* What renaming old to new is to make of a name below the root.
Renamed(old, new, name) ==
  IF IsDirectMember(old, name)
  THEN new \o SubSeq(name, Len(old) + 1, Len(name))
  ELSE name

\* What renaming old to new is to make of a tree, identities aside.
RenamedShape(unit, old, new) ==
  [name |-> new,
   classes |-> [i \in 1..Len(unit.classes) |->
                  [name |-> Renamed(old, new, unit.classes[i].name),
                   parents |-> [j \in 1..Len(unit.classes[i].parents) |->
                                  [kind |-> unit.classes[i].parents[j].kind,
                                   name |-> Renamed(old, new,
                                              unit.classes[i].parents[j].name)]]]],
   aliases |-> [i \in 1..Len(unit.aliases) |->
                  [name |-> Renamed(old, new, unit.aliases[i].name),
                   type |-> [kind |-> unit.aliases[i].type.kind,
                             name |-> Renamed(old, new, unit.aliases[i].type.name)]]]]

IsInit(name) ==
  Len(name) >= 2 /\ name[Len(name)] = "__init__" /\ name[Len(name) - 1] = "."

WithoutInit(name) == SubSeq(name, 1, Len(name) - 2)

\* Every ClassType of the caller's tree names a class of that tree or a
\* class of a module of the module map.
AllRefsNameClasses ==
  \A t \in Range(FindClassTypesVisitor(ast)) :
    \/ \E c \in Range(ast.classes) : c.name = t.name
    \/ \E k \in DOMAIN module_map :
         \E c \in Range(module_map[k].classes) : c.name = t.name

\* the class e.X of the loadable module e
ClassEX == Loadable[NameE].classes[1].id

AllPointersSet(unit) ==
  \A t \in Range(FindClassTypesVisitor(unit)) : cls[t.id] # NoCls

-----------------------------------------------------------------------------
(* C1.  Round trip.                                                        *)

-----------------------------------------------------------------------------
(* C2.  Renaming precision.                                                *)

\* The tree StoreAst renamed, when it did.
StoreRenamed == pc # "start" /\ IsInit(ast.name)

\* The tree EnsureAstName renamed, when it did.
EnsureRenamed == loaded.ensured /\ loaded.module_name # loaded.stored.ast.name

\* C2: RenameModuleVisitor(old, new) names the root new, makes new.X of a
\* name old.X when X holds no ".", and leaves every other name as it is.
C2_RenamingPrecision ==
  /\ StoreRenamed =>
       Shape(loaded.stored.ast) =
         RenamedShape(ast, ast.name, WithoutInit(ast.name))
  /\ EnsureRenamed =>
       Shape(bundle.ast) =
         RenamedShape(loaded.stored.ast, loaded.stored.ast.name, loaded.module_name)

\* A rename m -> n of a tree with a parent m.A (renamed) and a parent m.A.r
\* (kept).
C2_Witness ==
  /\ EnsureRenamed
  /\ \E i \in 1..Len(bundle.ast.classes) :
       LET old == loaded.stored.ast.classes[i].parents
           new == bundle.ast.classes[i].parents
       IN /\ \E j \in 1..Len(old) : new[j].name # old[j].name
          /\ \E j \in 1..Len(old) :
               /\ new[j].name = old[j].name
               /\ IsDirectMember(loaded.stored.ast.name,
                                 SubSeq(old[j].name, 1, Len(old[j].name) - 2))

-----------------------------------------------------------------------------
(* C3.  Unresolved dependency.                                             *)

ModuleOf(name) ==
  LET dots == {i \in 1..Len(name) : name[i] = "."}
  IN SubSeq(name, 1, Greatest(dots) - 1)

\* The names of the ClassTypes of a tree that refer to another module and
\* that the module map has no declaration for.
MissingNames(unit, mm) ==
  {t.name : t \in {u \in Range(FindClassTypesVisitor(unit)) :
     /\ Contains(u.name, ".")
     /\ ModuleOf(u.name) # unit.name
     /\ \/ ModuleOf(u.name) \notin DOMAIN mm
        \/ \A d \in Range(mm[ModuleOf(u.name)].classes)
                      \cup Range(mm[ModuleOf(u.name)].aliases) : d.name # u.name}}

\* C3: when the tree of the bundle holds a ClassType of another module that
\* the module map lacks, ProcessAst raises UnrestorableDependencyError with
\* the name of such a ClassType, whether the bundle has its index or not.
C3_UnresolvedDependency ==
  (ProcessAstEnded /\ MissingNames(bundle.ast, module_map) # {}) =>
    /\ pc = "raised"
    /\ result.kind = "UnrestorableDependencyError"
    /\ result.key \in MissingNames(bundle.ast, module_map)

\* The error raised for a bundle without index, whose tree holds another
\* ClassType that is found.
C3_Witness ==
  /\ ProcessAstEnded
  /\ ~bundle.class_type_nodes.present
  /\ result.kind = "UnrestorableDependencyError"
  /\ MissingNames(bundle.ast, module_map) # {}
  /\ \E t \in Range(FindClassTypesVisitor(bundle.ast)) : cls[t.id] = ClassEX

-----------------------------------------------------------------------------
(* C4.  Resolved or error.                                                 *)

\* C4: a tree that ProcessAst returns has the pointer of every ClassType
\* set; a pointer still None makes ProcessAst raise, with or without index.
C4_ResolvedOrError ==
  pc = "returned" => AllPointersSet(result.tree)

-----------------------------------------------------------------------------
(* C5.  Resolver ordering.                                                 *)

\* The ClassTypes of a tree that refer to the tree's own module.
SelfRefs(unit) ==
  {t \in Range(FindClassTypesVisitor(unit)) :
     Contains(t.name, ".") /\ ModuleOf(t.name) = unit.name}

\* C5: the tree returned is the tree external resolution produced, and every
\* pointer of a ClassType of the tree's own module leads to the class of
\* that name that is part of the returned tree, also when external
\* resolution replaced that class.
C5_ResolverOrdering ==
  pc = "returned" =>
    /\ result.tree = mid.ast
    /\ \A t \in SelfRefs(result.tree) :
         cls[t.id] # NoCls =>
           \E c \in Range(result.tree.classes) : c.id = cls[t.id] /\ c.name = t.name

\* A returned tree with a class that external resolution replaced and a
\* pointer to it.
C5_Witness ==
  /\ pc = "returned"
  /\ \E t \in SelfRefs(result.tree) :
       cls[t.id] \in ClassIds(result.tree) \ ClassIds(bundle.ast)

-----------------------------------------------------------------------------
(* C6.  Index soundness.                                                   *)

IndexSound(sa) ==
  sa.class_type_nodes.present =>
    LET nodes == sa.class_type_nodes.nodes
    IN /\ Range(nodes) = Range(FindClassTypesVisitor(sa.ast))
       /\ Len(nodes) = Cardinality(ClassTypeIds(sa.ast))

\* C6: a SerializableAst that StoreAst, EnsureAstName,
\* _LookupClassReferences or _FillLocalReferences leaves has no index or one
\* that holds the ClassType nodes of its tree and nothing else.
C6_IndexSoundness ==
  /\ pc # "start" => IndexSound(bundle) /\ IndexSound(loaded.stored)
  /\ mid # NoBundle => IndexSound(mid)

\* _LookupClassReferences kept the index of a bundle after resolving a
\* ClassType of module e through it.
C6_Witness ==
  /\ pc = "returned"
  /\ Truthy(mid.class_type_nodes)
  /\ \E n \in Range(mid.class_type_nodes.nodes) : cls[n.id] = ClassEX

-----------------------------------------------------------------------------
(* C7.  Dependency determinism.                                            *)

StrictlyAscending(names) ==
  \A i \in 1..Len(names) : \A j \in 1..Len(names) :
    i < j => StrLess(names[i], names[j])

\* C7: the dependencies of a bundle of StoreAst ascend without repetition
\* and hold the name of the bundle's tree when the tree declares anything.
C7_DependencyDeterminism ==
  pc # "start" =>
    /\ StrictlyAscending(loaded.stored.dependencies)
    /\ (loaded.stored.ast.classes # <<>> \/ loaded.stored.ast.aliases # <<>>) =>
         loaded.stored.ast.name \in Range(loaded.stored.dependencies)

-----------------------------------------------------------------------------
(* C8.  No pointer is persisted.                                           *)

\* C8: in the bundle StoreAst hands to SavePickle the pointer of every
\* ClassType of the tree and of the index is None, whatever it was in the
\* tree StoreAst was given, and the dependencies are the module names of the
\* ClassTypes.
C8_NoPointerPersisted ==
  pc = "stored" =>
    /\ \A t \in Range(FindClassTypesVisitor(bundle.ast)) : cls[t.id] = NoCls
    /\ \A n \in Range(bundle.class_type_nodes.nodes) : cls[n.id] = NoCls
    /\ Range(bundle.dependencies) =
         {ModuleOf(t.name) : t \in Range(FindClassTypesVisitor(bundle.ast))}

\* A bundle of a tree that came with a pointer into module e and a pointer
\* to a class of its own.
C8_Witness ==
  /\ pc = "stored"
  /\ \E i \in DOMAIN cls0 : cls0[i] = ClassEX
  /\ \E i \in DOMAIN cls0 : cls0[i] \in ClassIds(ast)
  /\ bundle.class_type_nodes.nodes # <<>>

-----------------------------------------------------------------------------
(* C9.  Name reconciliation.                                               *)

\* C9: EnsureAstName returns the bundle it was given when the tree has the
\* name asked for; else a bundle without index, with the same dependencies,
\* whose tree is the given tree renamed from its name to the name asked for.
C9_NameReconciliation ==
  loaded.ensured =>
    IF loaded.module_name = loaded.stored.ast.name
    THEN bundle = loaded.stored /\ (pc = "ensured" => cls = loaded.heap)
    ELSE /\ ~bundle.class_type_nodes.present
         /\ bundle.ast.name = loaded.module_name
         /\ Shape(bundle.ast) =
              RenamedShape(loaded.stored.ast, loaded.stored.ast.name,
                           loaded.module_name)
         /\ bundle.ast # loaded.stored.ast
         /\ bundle.dependencies = loaded.stored.dependencies

\* A bundle with ClassTypes and dependencies loaded under another name.
C9_Witness ==
  /\ pc = "ensured"
  /\ loaded.module_name # loaded.stored.ast.name
  /\ loaded.stored.class_type_nodes.nodes # <<>>
  /\ bundle.dependencies # <<>>
  /\ Shape(bundle.ast).classes # Shape(loaded.stored.ast).classes

-----------------------------------------------------------------------------
(* C10.  A module that is already loaded.                                  *)

\* C10: ProcessAst raises AssertionError when the name of the bundle's tree
\* is a key of the module map.
C10_AlreadyLoaded ==
  (ProcessAstEnded /\ bundle.ast.name \in DOMAIN module_map) =>
    pc = "raised" /\ result.kind = "AssertionError"

-----------------------------------------------------------------------------
(* C11.  The module map is the caller's.                                   *)

-----------------------------------------------------------------------------
(* C12.  Renaming and pointers.                                            *)

-----------------------------------------------------------------------------
(* C13.  Retry after an UnrestorableDependencyError.                       *)

\* The second ProcessAst call on the bundle has ended.
Retried == called.attempts = 2 /\ pc \in {"returned", "raised"}

\* What one ProcessAst call with the module map as it is now would have
\* done in place of the first call.
SingleCall == ProcessAst(bundle, module_map, called.heap, called.gen)

\* C13: when ProcessAst raised UnrestorableDependencyError and the caller
\* added modules to the map and called ProcessAst on the same bundle again,
\* the second call ends as one call with the larger map would have: it
\* returns the same tree with the same pointers, and it does so whenever
\* nothing is missing and every ClassType names a class; what the first
\* call left behind changes nothing.
C13_RetryAfterFailure ==
  Retried =>
    LET single == SingleCall
    IN /\ result = [k \in DOMAIN single \ {"mid", "mid_heap", "heap", "gen"} |->
                      single[k]]
       /\ cls = single.heap
       /\ mid = single.mid
          /\ AllRefsNameClasses => /\ result.kind = "returned"
                                /\ AllPointersSet(result.tree)

\* A retry that returned a tree after a first call that had found module e
\* but not module m, for a bundle with its index.
C13_Witness ==
  /\ Retried
  /\ result.kind = "returned"
  /\ bundle.class_type_nodes.present
  /\ DOMAIN called.module_map = {NameE}
  /\ DOMAIN module_map = {NameE, NameM}
  /\ \E t \in Range(FindClassTypesVisitor(result.tree)) : cls[t.id] = ClassEX
  /\ \E t \in Range(FindClassTypesVisitor(result.tree)) :
       cls[t.id] \in ClassIds(Loadable[NameM])

-----------------------------------------------------------------------------
(* C14.  Fast-path fallback.                                               *)

\* The ClassType t refers to another module than self_name, and what the
\* module map holds under its name is no class: VisitClassType returns
\* another node for it.
ResolvesToOtherNode(t, mm, self_name) ==
  /\ Contains(t.name, ".")
  /\ ModuleOf(t.name) # self_name
  /\ ModuleOf(t.name) \in DOMAIN mm
  /\ \E a \in Range(mm[ModuleOf(t.name)].aliases) : a.name = t.name

\* _LookupClassReferences was given a bundle with its index and raised
\* nothing.
LookedWithIndex ==
  /\ ProcessAstEnded
  /\ result.kind # "UnrestorableDependencyError"
  /\ bundle.class_type_nodes.present

\* C14: _LookupClassReferences, given a bundle with its index, returns the
\* bundle with that index and that tree when VisitClassType returned each
\* node of the index itself; when it returned another node for one of them
\* the bundle returned has no index and its tree is the one that one
\* traversal of the whole tree built, with the other node in the place of
\* each such node.
C14_FastPathFallback ==
  LookedWithIndex =>
    LET replaced == {n \in Range(bundle.class_type_nodes.nodes) :
                       ResolvesToOtherNode(n, module_map, bundle.ast.name)}
    IN /\ mid.class_type_nodes.present <=> replaced = {}
       /\ replaced = {} => mid = bundle /\ gen = called.gen
       /\ replaced # {} =>
            /\ mid.class_type_nodes = IndexNone
            /\ gen = called.gen + 1
            /\ mid.ast.id = FreshId(bundle.ast.id, gen)
            /\ Len(mid.ast.classes) = Len(bundle.ast.classes)
            /\ \A i \in 1..Len(bundle.ast.classes) :
                 LET old == bundle.ast.classes[i]
                     new == mid.ast.classes[i]
                 IN /\ new.name = old.name
                    /\ Len(new.parents) = Len(old.parents)
                    /\ (new.id = old.id) <=>
                           (\A j \in 1..Len(old.parents) : old.parents[j] \notin replaced)
                    /\ \A j \in 1..Len(old.parents) :
                         IF old.parents[j] \in replaced
                         THEN \E a \in Range(module_map[ModuleOf(old.parents[j].name)].aliases) :
                                /\ a.name = old.parents[j].name
                                /\ new.parents[j] = a.type
                         ELSE new.parents[j] = old.parents[j]

\* The index was dropped at its second node, after the first was resolved
\* in place, and ProcessAst returned the tree rebuilt.
C14_Witness ==
  /\ LookedWithIndex
  /\ pc = "returned"
  /\ ~mid.class_type_nodes.present
  /\ Len(bundle.class_type_nodes.nodes) = 2
  /\ cls[bundle.class_type_nodes.nodes[1].id] = ClassEX
  /\ ResolvesToOtherNode(bundle.class_type_nodes.nodes[2], module_map, bundle.ast.name)
  /\ result.tree # bundle.ast

-----------------------------------------------------------------------------
(* C15.  Local resolution sets pointers and nothing else.                  *)

\* C15: the tree ProcessAst returns is the tree _LookupClassReferences left,
\* node for node; _FillLocalReferences changed no pointer that was set, and
\* the pointers it set are those of ClassTypes of the tree's own module,
\* each to a class of the tree.
C15_LocalResolutionPointerOnly ==
  pc = "returned" =>
    /\ result.tree = mid.ast
    /\ DOMAIN cls = DOMAIN mid_cls
    /\ \A i \in DOMAIN cls :
         cls[i] # mid_cls[i] =>
           /\ mid_cls[i] = NoCls
           /\ \E t \in SelfRefs(result.tree) :
                /\ t.id = i
                /\ \E c \in Range(result.tree.classes) :
                     c.id = cls[i] /\ c.name = t.name

\* _FillLocalReferences set the pointer of a ClassType of the tree's own
\* module next to a pointer that _LookupClassReferences had set.
C15_Witness ==
  /\ pc = "returned"
  /\ \E t \in SelfRefs(result.tree) : mid_cls[t.id] = NoCls /\ cls[t.id] # NoCls
  /\ \E t \in Range(FindClassTypesVisitor(result.tree)) :
       mid_cls[t.id] = ClassEX /\ cls[t.id] = ClassEX

-----------------------------------------------------------------------------
(* C16.  No RenameModuleVisitor with an empty old name.                    *)

\* C16: the constructor raises ValueError when the old module name is
\* empty, whatever the new name, and then no visitor exists and no tree is
\* rebuilt; a visitor that exists has an old prefix of a name and a ".".
C16_EmptyOldNameRejected ==
  /\ renamer # NoRenamer =>
       /\ Len(renamer._old) >= 2
       /\ renamer._old[Len(renamer._old)] = "."
  /\ pc = "raised" =>
       /\ renamer = NoRenamer
       /\ gen = 0
       /\ cls = cls0
       /\ result.old_module_name = <<>> => result.kind = "ValueError"
  /\ pc = "renamed" => renamer # NoRenamer

\* The constructor raised ValueError for an empty old name and a new name
\* that ends in ".".
C16_Witness ==
  /\ pc = "raised"
  /\ result.kind = "ValueError"
  /\ result.old_module_name = <<>>
  /\ EndsWith(result.new_module_name, Dot)
  /\ ast.classes # <<>>

-----------------------------------------------------------------------------
(* C17.  With the index and without it.                                    *)

\* What the first ProcessAst call would have done, had the bundle come
\* without its index.
WithoutIndexCall ==
  ProcessAst([bundle EXCEPT !.class_type_nodes = IndexNone], called.module_map,
             called.heap, called.gen)

\* C17: ProcessAst of a bundle with its index ends as ProcessAst of the
\* same bundle without index does: both raise the same exception, or both
\* return the same tree with the same pointers.
C17_FastSlowAgree ==
  (ProcessAstEnded /\ called.attempts = 1 /\ bundle.class_type_nodes.present) =>
    /\ result.kind = WithoutIndexCall.kind
    /\ result.kind = "returned" =>
         /\ Shape(result.tree) = Shape(WithoutIndexCall.tree)
         /\ \A i \in 1..Len(result.tree.classes) :
              \A j \in 1..Len(result.tree.classes[i].parents) :
                cls[result.tree.classes[i].parents[j].id] =
                  WithoutIndexCall.heap[WithoutIndexCall.tree.classes[i].parents[j].id]

-----------------------------------------------------------------------------
(* C18.  StoreAst and the caller's tree.                                   *)

\* C18: StoreAst leaves the caller's tree with the nodes and the names it
\* had; a ClassType of it that is a node of the bundle's tree too, as each
\* is that the ".__init__" rename did not replace, has its pointer None
\* afterwards; one that the rename replaced keeps the pointer it had.
C18_StoreClearsInPlace ==
  [][(pc = "start" /\ pc' = "stored") =>
       /\ ast' = ast
       /\ \A t \in Range(FindClassTypesVisitor(ast)) :
            /\ (t.id \in ClassTypeIds(bundle'.ast)) <=>
                 (Renamed(ast.name, WithoutInit(ast.name), t.name) = t.name
                    \/ ~IsInit(ast.name))
            /\ cls'[t.id] = IF t.id \in ClassTypeIds(bundle'.ast)
                             THEN NoCls ELSE cls[t.id]]_vars

\* StoreAst was given a resolved tree called p.__init__ and cleared the
\* pointer into module e of a node it shares with the bundle, next to a
\* node that the rename replaced.
C18_Witness ==
  /\ pc = "stored"
  /\ IsInit(ast.name)
  /\ \E t \in Range(FindClassTypesVisitor(ast)) :
       /\ t.id \in ClassTypeIds(bundle.ast)
       /\ cls0[t.id] = ClassEX
       /\ cls[t.id] = NoCls
  /\ \E t \in Range(FindClassTypesVisitor(ast)) :
       /\ t.id \notin ClassTypeIds(bundle.ast)
       /\ cls[t.id] \in ClassIds(ast)

====
